---- MODULE Spec2Model ----
(***************************************************************************)
(* State-machine model of the M24C64 EEPROM driver (src/src/lib.rs).       *)
(*                                                                         *)
(* The driver owns an I2C transport and a 34-byte command buffer.  write   *)
(* and read split a byte range at 32-byte page boundaries and issue one    *)
(* raw transaction per chunk; write_raw retries a failed transport write   *)
(* up to 10 times with a 1 ms delay between attempts.                      *)
(*                                                                         *)
(* The transport and the device are the environment: every transport call  *)
(* may succeed or fail, and the device stores what a successful write      *)
(* transaction carries at the address its 2-byte header names.             *)
(***************************************************************************)
EXTENDS Integers, Sequences, FiniteSets, TLC

\* ------------------------------------------------------------------ bounds
\* Longest caller slice (write data / read buffer) that is explored.
MaxLen == 40
\* Most transport failures the environment injects into one call.
MaxFails == 12
\* Most public calls (write / read) made on one driver instance.
MaxCalls == 2

\* Start addresses explored: a page start, mid-page, two bytes before a page
\* end, the last page below the 8192-byte capacity, and the last page a
\* 16-bit header can address.
Addresses == {0, 16, 30, 8160, 65504}
\* Values of the E pins a driver is constructed with.
EAddrs == {5}

\* ------------------------------------------------------- program constants
\* Page size used by the chunking arithmetic (i % 32, 32 - page_offset).
PageSize == 32
\* Length of cmd_buf.
CmdBufLen == 34
\* Retry cap of write_raw (Err(_) if i < 10).
MaxRetries == 10
\* Base I2C device address (self.e_addr | 0x50).
BaseAddr == 80
\* Argument of delay.delay_ms.
DelayMs == 1

\* ------------------------------------------------------------ arithmetic
Min(a, b) == IF a < b THEN a ELSE b

\* Bitwise or of two u8 values.
RECURSIVE BitOr(_, _)
BitOr(a, b) ==
  IF a = 0 THEN b
  ELSE IF b = 0 THEN a
  ELSE (IF (a % 2 = 1) \/ (b % 2 = 1) THEN 1 ELSE 0) + 2 * BitOr(a \div 2, b \div 2)

\* Mutant: the low byte is sent first.
HeaderHiLittleEndian(a) == a % 256
\* (address >> 8) as u8
HeaderHi(a) == (a \div 256) % 256
\* (address & 0xFF) as u8
HeaderLo(a) == a % 256

\* Mutant: the E pins are left out of the device address.
DevAddrBaseOnly(e) == BaseAddr
\* self.e_addr | 0x50
DevAddr(e) == BitOr(e, BaseAddr)

\* Result<(), I2C::Error>: Ok(()) or Err(e); e is an opaque transport error.
Ok == [ok |-> TRUE, err |-> 0]
Err(e) == [ok |-> FALSE, err |-> e]
\* No value returned yet.
Pending == [ok |-> FALSE, err |-> 0]

\* The bytes the caller hands to its c-th call when that is a write: n bytes
\* counting up from 64 * c + 1, so that successive writes differ in every byte.
Pattern(c, n) == [k \in 1..n |-> (64 * c + k) % 256]

VARIABLES
  e_addr,     \* field e_addr
  cmd_buf,    \* field cmd_buf: 34 bytes (1-based here)
  mem,        \* device memory: written cells only; other cells are erased
  pc,         \* position of the driver
  op,         \* public operation in progress or last returned
  address,    \* parameter address of write / read
  data,       \* parameter data of write / read (read mutates it)
  i,          \* cursor i of write / read
  raw_addr,   \* parameter address of write_raw / read_raw
  raw_lo,     \* offset in data of the slice handed to the raw call
  bytes,      \* parameter bytes of write_raw / read_raw
  raw_i,      \* retry counter i of write_raw
  result,     \* value returned by the public operation
  bus,        \* transport and delay calls made by the current call, in order
  raw,        \* raw invocations made by the current call: <<address, length>>
  prev,       \* summary of the call before the current one
  calls       \* number of public calls made so far

vars == <<e_addr, cmd_buf, mem, pc, op, address, data, i, raw_addr, raw_lo,
          bytes, raw_i, result, bus, raw, prev, calls>>

\* ---------------------------------------------------------------- device
\* 16-bit memory address carried by the first two bytes of a transaction.
HeaderAddr(payload) == payload[1] * 256 + payload[2]

\* An erased cell reads 0xFF.
MemAt(m, a) == IF a \in DOMAIN m THEN m[a] ELSE 255

\* Device side of a successful write transaction: the data bytes after the
\* header are latched into the page the header addresses; the in-page
\* pointer rolls over at the page end.
DevStore(m, payload) ==
  LET hdr == HeaderAddr(payload)
      n == Len(payload) - 2
      cell(j) == (hdr \div PageSize) * PageSize + ((hdr + j) % PageSize)
      written == {cell(j) : j \in 0..(n - 1)}
      last(c) == CHOOSE j \in 0..(n - 1) :
                   /\ cell(j) = c
                   /\ \A k \in 0..(n - 1) : cell(k) = c => k <= j
  IN [c \in (DOMAIN m) \cup written |->
        IF c \in written THEN payload[last(c) + 3] ELSE m[c]]

\* Device side of a successful write-then-read transaction: n bytes read
\* sequentially from the header address, with no page restriction.
DevLoad(m, header, n) ==
  [k \in 1..n |-> MemAt(m, (HeaderAddr(header) + k - 1) % 65536)]

\* ------------------------------------------------------- transport log
BusWrite(dev, payload, res) ==
  [kind |-> "write", dev |-> dev, out |-> payload, n |-> 0, res |-> res]
BusWriteRead(dev, header, n, res) ==
  [kind |-> "write_read", dev |-> dev, out |-> header, n |-> n, res |-> res]
BusDelay(ms) ==
  [kind |-> "delay_ms", dev |-> 0, out |-> <<>>, n |-> ms, res |-> Ok]

\* Transport failures injected into the current call so far.
Fails == Cardinality({k \in DOMAIN bus : ~bus[k].res.ok})
\* The environment may fail the next transport call.
MayFail == Fails < MaxFails
\* The error value of the transport call about to be logged: every failure
\* yields its own value.
NextErr == Len(bus) + 1

\* ------------------------------------------------------------- chunking
\* Mutant: the loop also runs when the cursor is at the end of the range.
WriteLoopCondInclusive(a, cur, n) == cur <= a + n
\* write, line 79: i < (address + data.len())
WriteLoopCond(a, cur, n) == cur < a + n
\* Mutant: the page offset is taken from the start address, not the cursor.
WriteChunkEndStartOffset(a, cur, n) == Min(cur - a + (PageSize - (a % PageSize)), n)
\* Mutant: the chunk is a whole page long wherever the cursor is in its page.
WriteChunkEndNoOffset(a, cur, n) == Min(cur - a + PageSize, n)
\* write, line 81: (i - address + (32 - page_offset)).min(data.len())
WriteChunkEnd(a, cur, n) == Min(cur - a + (PageSize - (cur % PageSize)), n)
\* Mutant: the cursor advances by a whole page from wherever it is.
WriteNextCursorFullPage(cur) == cur + PageSize
\* write, line 82: i += 32 - page_offset
WriteNextCursor(cur) == cur + (PageSize - (cur % PageSize))

\* Mutant: the loop also runs when the cursor is at the end of the range.
ReadLoopCondInclusive(a, cur, n) == cur <= a + n
\* read, line 96: i < (address + data.len())
ReadLoopCond(a, cur, n) == cur < a + n
\* Mutant: the chunk runs to the end of the buffer, whatever the page.
ReadChunkEndWhole(a, cur, n) == n
\* read, line 98: (i - address + (32 - page_offset)).min(len)
ReadChunkEnd(a, cur, n) == Min(cur - a + (PageSize - (cur % PageSize)), n)
\* Mutant: the read cursor advances by a whole page.
ReadNextCursorFullPage(cur) == cur + PageSize
\* read, line 99: i += 32 - page_offset
ReadNextCursor(cur) == cur + (PageSize - (cur % PageSize))

\* cmd_buf after write_raw's three stores (lines 44-46).
WriteRawBuf(buf, a, bs) ==
  [k \in 1..CmdBufLen |->
     IF k = 1 THEN HeaderHi(a)
     ELSE IF k = 2 THEN HeaderLo(a)
     ELSE IF k <= Len(bs) + 2 THEN bs[k - 2]
     ELSE buf[k]]

\* cmd_buf after read_raw's two stores (lines 68-69).
ReadRawBuf(buf, a) ==
  [k \in 1..CmdBufLen |->
     IF k = 1 THEN HeaderHi(a)
     ELSE IF k = 2 THEN HeaderLo(a)
     ELSE buf[k]]

\* Summary of the call that has just returned.
Summary == [op |-> op, data |-> data, raw |-> raw]
NoCall == [op |-> "none", data |-> <<>>, raw |-> <<>>]

\* The caller may make its next call: the driver is fresh, or the last call
\* returned Ok (a caller that gets an Err propagates it and stops).
CanCall == calls < MaxCalls /\ (pc = "idle" \/ (pc = "done" /\ result.ok))

\* ----------------------------------------------------------------- Init
\* M24C64::new: cmd_buf zeroed.  The caller's address and slice length are
\* fixed for the driver's lifetime; the device starts erased.
Init ==
  /\ e_addr \in EAddrs
  /\ cmd_buf = [k \in 1..CmdBufLen |-> 0]
  /\ mem = <<>>
  /\ pc = "idle"
  /\ op = "none"
  /\ address \in Addresses
  /\ \E n \in 0..MaxLen : data = [k \in 1..n |-> 0]
  /\ i = 0
  /\ raw_addr = 0
  /\ raw_lo = 0
  /\ bytes = <<>>
  /\ raw_i = 0
  /\ result = Pending
  /\ bus = <<>>
  /\ raw = <<>>
  /\ prev = NoCall
  /\ calls = 0

\* ---------------------------------------------------------------- write
\* The caller invokes write(address, data, delay): let mut i = address.
CallWrite ==
  /\ CanCall
  /\ data' = Pattern(calls + 1, Len(data))
  /\ op' = "write"
  /\ i' = address
  /\ pc' = "write_loop"
  /\ result' = Pending
  /\ bus' = <<>>
  /\ raw' = <<>>
  /\ prev' = IF pc = "done" THEN Summary ELSE NoCall
  /\ calls' = calls + 1
  /\ UNCHANGED <<e_addr, cmd_buf, mem, address, raw_addr, raw_lo, bytes, raw_i>>

\* Mutant: the retry counter is kept from the chunk before.
WriteChunkKeepCounter ==
  /\ pc = "write_loop"
  /\ WriteLoopCond(address, i, Len(data))
  /\ LET lo == i - address
         hi == WriteChunkEnd(address, i, Len(data))
         bs == SubSeq(data, lo + 1, hi)
     IN /\ raw_addr' = i
        /\ raw_lo' = lo
        /\ bytes' = bs
        /\ raw' = Append(raw, <<i, Len(bs)>>)
        /\ cmd_buf' = WriteRawBuf(cmd_buf, i, bs)
        /\ pc' = "write_raw"
  /\ UNCHANGED <<e_addr, mem, op, address, data, i, raw_i, result, bus, prev, calls>>

\* while i < address + data.len(): take the chunk and enter write_raw,
\* which fills cmd_buf and sets its retry counter to 0 (lines 79-81, 44-55).
\* A slice longer than cmd_buf's tail makes copy_from_slice panic.
WriteChunk ==
  /\ pc = "write_loop"
  /\ WriteLoopCond(address, i, Len(data))
  /\ LET lo == i - address
         hi == WriteChunkEnd(address, i, Len(data))
         bs == SubSeq(data, lo + 1, hi)
     IN /\ raw_addr' = i
        /\ raw_lo' = lo
        /\ bytes' = bs
        /\ raw' = Append(raw, <<i, Len(bs)>>)
        /\ IF Len(bs) + 2 <= CmdBufLen
           THEN /\ cmd_buf' = WriteRawBuf(cmd_buf, i, bs)
                /\ pc' = "write_raw"
           ELSE /\ cmd_buf' = cmd_buf
                /\ pc' = "panic"
  /\ raw_i' = 0
  /\ UNCHANGED <<e_addr, mem, op, address, data, i, result, bus, prev, calls>>

\* The loop condition is false: Ok(()) (line 84).
WriteDone ==
  /\ pc = "write_loop"
  /\ ~WriteLoopCond(address, i, Len(data))
  /\ result' = Ok
  /\ pc' = "done"
  /\ UNCHANGED <<e_addr, cmd_buf, mem, op, address, data, i, raw_addr, raw_lo,
                 bytes, raw_i, bus, raw, prev, calls>>

\* Mutant: the slice handed to i2c.write is one byte short.
WritePayloadShort == SubSeq(cmd_buf, 1, Len(bytes) + 1)
\* The slice of cmd_buf handed to i2c.write: cmd_buf[0..bytes.len() + 2].
WritePayload == SubSeq(cmd_buf, 1, Len(bytes) + 2)

\* i2c.write returns Ok: write_raw returns Ok(()), and write advances the
\* cursor (lines 57-58, 82).
I2cWriteOk ==
  /\ pc = "write_raw"
  /\ bus' = Append(bus, BusWrite(DevAddr(e_addr), WritePayload, Ok))
  /\ mem' = DevStore(mem, WritePayload)
  /\ i' = WriteNextCursor(i)
  /\ pc' = "write_loop"
  /\ UNCHANGED <<e_addr, cmd_buf, op, address, data, raw_addr, raw_lo, bytes,
                 raw_i, result, raw, prev, calls>>

\* Mutant: the retry arm has no cap.
RetryAllowedAlways(n) == TRUE
\* Mutant: the retry arm admits one retry more.
RetryAllowedOneMore(n) == n <= MaxRetries
\* Guard of the retry arm: Err(_) if i < 10.
RetryAllowed(n) == n < MaxRetries

\* i2c.write returns Err and the retry arm matches: i += 1, then the delay
\* is due (lines 59, 62).
I2cWriteErrRetry ==
  /\ pc = "write_raw"
  /\ MayFail
  /\ RetryAllowed(raw_i)
  /\ bus' = Append(bus, BusWrite(DevAddr(e_addr), WritePayload, Err(NextErr)))
  /\ raw_i' = raw_i + 1
  /\ pc' = "delay"
  /\ UNCHANGED <<e_addr, cmd_buf, mem, op, address, data, i, raw_addr, raw_lo,
                 bytes, result, raw, prev, calls>>

\* Mutant: the delay is called before the retry cap is looked at.
I2cWriteErrReturnDelayed ==
  /\ pc = "write_raw"
  /\ MayFail
  /\ ~RetryAllowed(raw_i)
  /\ bus' = bus \o << BusWrite(DevAddr(e_addr), WritePayload, Err(NextErr)),
                      BusDelay(DelayMs) >>
  /\ result' = Err(NextErr)
  /\ pc' = "done"
  /\ UNCHANGED <<e_addr, cmd_buf, mem, op, address, data, i, raw_addr, raw_lo,
                 bytes, raw_i, raw, prev, calls>>

\* Mutant: write_raw returns the error of its first attempt.
I2cWriteErrReturnFirst ==
  /\ pc = "write_raw"
  /\ MayFail
  /\ ~RetryAllowed(raw_i)
  /\ bus' = Append(bus, BusWrite(DevAddr(e_addr), WritePayload, Err(NextErr)))
  /\ result' = Err(NextErr - 2 * raw_i)
  /\ pc' = "done"
  /\ UNCHANGED <<e_addr, cmd_buf, mem, op, address, data, i, raw_addr, raw_lo,
                 bytes, raw_i, raw, prev, calls>>

\* Mutant: write drops the error of write_raw and goes on to the next chunk.
I2cWriteErrIgnored ==
  /\ pc = "write_raw"
  /\ MayFail
  /\ ~RetryAllowed(raw_i)
  /\ bus' = Append(bus, BusWrite(DevAddr(e_addr), WritePayload, Err(NextErr)))
  /\ i' = WriteNextCursor(i)
  /\ pc' = "write_loop"
  /\ UNCHANGED <<e_addr, cmd_buf, mem, op, address, data, raw_addr, raw_lo,
                 bytes, raw_i, result, raw, prev, calls>>

\* i2c.write returns Err and the retry arm does not match: write_raw returns
\* Err(e) and write propagates it with `?` (lines 60, 81).
I2cWriteErrReturn ==
  /\ pc = "write_raw"
  /\ MayFail
  /\ ~RetryAllowed(raw_i)
  /\ bus' = Append(bus, BusWrite(DevAddr(e_addr), WritePayload, Err(NextErr)))
  /\ result' = Err(NextErr)
  /\ pc' = "done"
  /\ UNCHANGED <<e_addr, cmd_buf, mem, op, address, data, i, raw_addr, raw_lo,
                 bytes, raw_i, raw, prev, calls>>

\* Mutant: the loop tries again without calling the delay.
DelaySkipped ==
  /\ pc = "delay"
  /\ pc' = "write_raw"
  /\ UNCHANGED <<e_addr, cmd_buf, mem, op, address, data, i, raw_addr, raw_lo,
                 bytes, raw_i, result, bus, raw, prev, calls>>

\* delay.delay_ms(1), then the loop tries again (line 63).
Delay ==
  /\ pc = "delay"
  /\ bus' = Append(bus, BusDelay(DelayMs))
  /\ pc' = "write_raw"
  /\ UNCHANGED <<e_addr, cmd_buf, mem, op, address, data, i, raw_addr, raw_lo,
                 bytes, raw_i, result, raw, prev, calls>>

\* ----------------------------------------------------------------- read
\* The caller invokes read(address, data) with a zeroed buffer:
\* let len = data.len(); let mut i = address.
CallRead ==
  /\ CanCall
  /\ data' = [k \in 1..Len(data) |-> 0]
  /\ op' = "read"
  /\ i' = address
  /\ pc' = "read_loop"
  /\ result' = Pending
  /\ bus' = <<>>
  /\ raw' = <<>>
  /\ prev' = IF pc = "done" THEN Summary ELSE NoCall
  /\ calls' = calls + 1
  /\ UNCHANGED <<e_addr, cmd_buf, mem, address, raw_addr, raw_lo, bytes, raw_i>>

\* while i < address + data.len(): take the chunk of the buffer and enter
\* read_raw, which stores the header in cmd_buf (lines 96-98, 68-69).
ReadChunk ==
  /\ pc = "read_loop"
  /\ ReadLoopCond(address, i, Len(data))
  /\ LET lo == i - address
         hi == ReadChunkEnd(address, i, Len(data))
         bs == SubSeq(data, lo + 1, hi)
     IN /\ raw_addr' = i
        /\ raw_lo' = lo
        /\ bytes' = bs
        /\ raw' = Append(raw, <<i, Len(bs)>>)
        /\ cmd_buf' = ReadRawBuf(cmd_buf, i)
  /\ pc' = "read_raw"
  /\ UNCHANGED <<e_addr, mem, op, address, data, i, raw_i, result, bus, prev, calls>>

\* The loop condition is false: Ok(()) (line 101).
ReadDone ==
  /\ pc = "read_loop"
  /\ ~ReadLoopCond(address, i, Len(data))
  /\ result' = Ok
  /\ pc' = "done"
  /\ UNCHANGED <<e_addr, cmd_buf, mem, op, address, data, i, raw_addr, raw_lo,
                 bytes, raw_i, bus, raw, prev, calls>>

\* The slice of cmd_buf handed to i2c.write_read: cmd_buf[0..2].
ReadHeader == SubSeq(cmd_buf, 1, 2)

\* Mutant: every chunk is stored at the start of the caller's buffer.
FillAtStart(buf, lo, bs) ==
  [k \in 1..Len(buf) |-> IF k <= Len(bs) THEN bs[k] ELSE buf[k]]

\* The caller's buffer with the chunk at offset lo replaced by bs.
Fill(buf, lo, bs) ==
  [k \in 1..Len(buf) |->
     IF lo < k /\ k <= lo + Len(bs) THEN bs[k - lo] ELSE buf[k]]

\* i2c.write_read returns Ok: the chunk of the caller's buffer holds the
\* bytes read, and read advances the cursor (lines 71, 99).
I2cWriteReadOk ==
  /\ pc = "read_raw"
  /\ bus' = Append(bus, BusWriteRead(DevAddr(e_addr), ReadHeader, Len(bytes), Ok))
  /\ data' = Fill(data, raw_lo, DevLoad(mem, ReadHeader, Len(bytes)))
  /\ i' = ReadNextCursor(i)
  /\ pc' = "read_loop"
  /\ UNCHANGED <<e_addr, cmd_buf, mem, op, address, raw_addr, raw_lo, bytes,
                 raw_i, result, raw, prev, calls>>

\* Mutant: read_raw tries the transaction again after a failure.
I2cWriteReadErrRetried ==
  /\ pc = "read_raw"
  /\ MayFail
  /\ bus' = Append(bus, BusWriteRead(DevAddr(e_addr), ReadHeader, Len(bytes), Err(NextErr)))
  /\ UNCHANGED <<e_addr, cmd_buf, mem, pc, op, address, data, i, raw_addr, raw_lo,
                 bytes, raw_i, result, raw, prev, calls>>

\* i2c.write_read returns Err: read_raw returns it and read propagates it
\* with `?` (lines 71, 98).
I2cWriteReadErr ==
  /\ pc = "read_raw"
  /\ MayFail
  /\ bus' = Append(bus, BusWriteRead(DevAddr(e_addr), ReadHeader, Len(bytes), Err(NextErr)))
  /\ result' = Err(NextErr)
  /\ pc' = "done"
  /\ UNCHANGED <<e_addr, cmd_buf, mem, op, address, data, i, raw_addr, raw_lo,
                 bytes, raw_i, raw, prev, calls>>

\* ----------------------------------------------------------------- Next
Next ==
  \/ CallWrite
  \/ WriteChunk
  \/ WriteDone
  \/ I2cWriteOk
  \/ I2cWriteErrRetry
  \/ I2cWriteErrReturn
  \/ Delay
  \/ CallRead
  \/ ReadChunk
  \/ ReadDone
  \/ I2cWriteReadOk
  \/ I2cWriteReadErr

Spec == Init /\ [][Next]_vars

\* ===================================================== properties
\* Readings of the logs that the properties below share.

\* Length of the caller's slice.
N == Len(data)
\* Indices of the transport writes / write-then-reads / delays of this call.
WriteOps == {k \in DOMAIN bus : bus[k].kind = "write"}
ReadOps == {k \in DOMAIN bus : bus[k].kind = "write_read"}
DelayOps == {k \in DOMAIN bus : bus[k].kind = "delay_ms"}
OkWrites == {k \in WriteOps : bus[k].res.ok}
\* A raw page write ends with its first successful transport write, or with
\* the call.  First log entry of the raw page write that owns entry k + 1.
RECURSIVE SegStart(_)
SegStart(k) ==
  IF k = 0 THEN 1
  ELSE IF bus[k].kind = "write" /\ bus[k].res.ok THEN k + 1
  ELSE SegStart(k - 1)
\* Last log entry so far of the raw page write that owns entry k.
RECURSIVE SegEnd(_)
SegEnd(k) ==
  IF k >= Len(bus) THEN Len(bus)
  ELSE IF bus[k].kind = "write" /\ bus[k].res.ok THEN k
  ELSE SegEnd(k + 1)
\* Log entries of the raw page write that made transport call k.
Segment(k) == SegStart(k - 1)..SegEnd(k)
Attempts(k) == Segment(k) \cap WriteOps
Delays(k) == Segment(k) \cap DelayOps
\* A call has returned.
Returned(o) == pc = "done" /\ op = o

\* ---------------------------------------------------------------- C1
\* The cell of the device that holds byte k (1-based) of the caller's range.
CellOf(k) == (address + k - 1) % 65536

\* C1: a successful write(a, data) followed directly by a successful
\* read(a, buf) with buf as long as data leaves buf equal to data.
C1_RoundTrip ==
  (Returned("read") /\ result.ok /\ prev.op = "write") => data = prev.data

\* A three-chunk write has been read back.
C1_Witness ==
  /\ Returned("read") /\ result.ok /\ prev.op = "write"
  /\ address = 30 /\ N = 40 /\ Len(raw) = 3
  /\ data = Pattern(1, 40)

\* ---------------------------------------------------------------- C2
\* C2: every transport write of a write call carries 1..32 data bytes after
\* its 2-byte header, stays inside one 32-byte page (the chunk at address c
\* with L bytes has c div 32 = (c + L - 1) div 32), and header plus payload
\* fit the 34-byte command buffer.
C2_PageBounded ==
  /\ pc # "panic"
  /\ op = "write" =>
       /\ \A k \in DOMAIN raw :
            LET c == raw[k][1]
                L == raw[k][2]
            IN /\ 1 <= L /\ L <= 32
               /\ (c \div 32) = ((c + L - 1) \div 32)
       /\ \A k \in WriteOps :
            LET c == HeaderAddr(bus[k].out)
                L == Len(bus[k].out) - 2
            IN /\ 1 <= L /\ L <= 32
               /\ Len(bus[k].out) <= 34
               /\ (c \div 32) = ((c + L - 1) \div 32)
       /\ pc \in {"write_raw", "delay"} =>
            /\ Len(WritePayload) = raw[Len(raw)][2] + 2
            /\ HeaderAddr(WritePayload) = raw[Len(raw)][1] % 65536

\* A write that started two bytes before a page end has sent a 2-byte, a
\* 32-byte and a 6-byte transaction.
C2_Witness ==
  /\ Returned("write") /\ result.ok /\ address = 30 /\ N = 40
  /\ \E a, b, c \in WriteOps :
       /\ bus[a].res.ok /\ Len(bus[a].out) = 4
       /\ bus[b].res.ok /\ Len(bus[b].out) = 34
       /\ bus[c].res.ok /\ Len(bus[c].out) = 8

\* ---------------------------------------------------------------- C3
\* The raw page write that made the last logged call gave up: write has
\* returned an error.
GaveUp == Returned("write") /\ ~result.ok

\* C3: a raw page write whose transport write fails on every attempt makes
\* exactly 11 attempts and 10 delay calls of 1 ms each, then returns the
\* transport error; no raw page write ever makes a 12th attempt.  (A raw
\* page write's log entries are final once a later entry exists, so judging
\* the raw page write of the last entry in every state judges them all.)
C3_ExhaustsAfterEleven ==
  /\ (op = "write" /\ bus # <<>>) => Cardinality(Attempts(Len(bus))) <= 11
  /\ GaveUp =>
       LET last == Len(bus)
       IN /\ last \in WriteOps
          /\ Cardinality(Attempts(last)) = 11
          /\ \A k \in Attempts(last) : ~bus[k].res.ok
          /\ Cardinality(Delays(last)) = 10
          /\ \A k \in Delays(last) : bus[k].n = 1
          /\ result = bus[last].res

\* A raw page write has given up.
C3_Witness ==
  /\ GaveUp
  /\ Cardinality(Attempts(Len(bus))) = 11
  /\ Cardinality(Delays(Len(bus))) = 10

\* ---------------------------------------------------------------- C4
\* C4: a raw page write whose transport write fails on attempts 1..K-1 and
\* succeeds on attempt K (1 <= K <= 11) makes exactly K attempts and K-1
\* delay calls and returns success: after fewer than 11 failures the next
\* step is the delay and then another attempt, and after the success write
\* goes on (to the next chunk or to its own Ok).
C4_SucceedsOnKth ==
  (op = "write" /\ bus # <<>>) =>
    LET last == Len(bus)
        K == Cardinality(Attempts(last))
    IN /\ (last \in OkWrites) =>
            /\ 1 <= K /\ K <= 11
            /\ Cardinality(Delays(last)) = K - 1
            /\ \A j \in Attempts(last) : bus[j].res.ok <=> j = last
            /\ \A j \in Delays(last) : bus[j].n = 1
            /\ pc \in {"write_loop", "write_raw"} \/ (pc = "done" /\ result.ok)
       /\ (last \in WriteOps \ OkWrites /\ K < 11) => pc = "delay"
       /\ (last \in DelayOps) => pc = "write_raw"

\* A raw page write has succeeded on its 11th attempt and write returned Ok.
C4_Witness ==
  /\ Returned("write") /\ result.ok
  /\ \E k \in OkWrites :
       Cardinality(Attempts(k)) = 11 /\ Cardinality(Delays(k)) = 10

\* ---------------------------------------------------------------- C5
\* Page boundaries crossed by the byte range [a, a + n): the multiples of 32
\* that have a byte of the range on either side.
BoundariesCrossed(a, n) ==
  Cardinality({b \in (a + 1)..(a + n - 1) : b % 32 = 0})
\* Pages that hold at least one byte of the range [a, a + n).
PagesTouched(a, n) == Cardinality({b \div 32 : b \in a..(a + n - 1)})

\* C5 as stated: with a transport that never fails, write(a, data) makes as
\* many raw-write invocations as [a, a + n) crosses page boundaries.
C5_Original ==
  (Returned("write") /\ result.ok /\ Fails = 0) =>
     Len(raw) = BoundariesCrossed(address, N)

\* C5 as amended: a write that returns Ok has made as many raw-write
\* invocations as [a, a + n) touches pages, which is one more than the page
\* boundaries it crosses when n > 0, and none when n = 0.
C5_OnePerPage ==
  (Returned("write") /\ result.ok) =>
     /\ Len(raw) = PagesTouched(address, N)
     /\ Len(raw) = IF N = 0 THEN 0 ELSE BoundariesCrossed(address, N) + 1
     /\ Cardinality(OkWrites) = Len(raw)

\* A write that crosses two page boundaries has made three raw writes.
C5_Witness ==
  /\ Returned("write") /\ result.ok /\ Fails = 0
  /\ address = 30 /\ N = 40
  /\ BoundariesCrossed(address, N) = 2 /\ Len(raw) = 3

\* ---------------------------------------------------------------- C6
\* Data bytes carried by the successful transport writes, in issue order.
RECURSIVE SentUpTo(_)
SentUpTo(k) ==
  IF k = 0 THEN <<>>
  ELSE IF bus[k].kind = "write" /\ bus[k].res.ok
       THEN Append(SentUpTo(k - 1), SubSeq(bus[k].out, 3, Len(bus[k].out)))
       ELSE SentUpTo(k - 1)

\* C6: for n > 0 the first raw-write chunk of write(a, data) is at a and has
\* length min(32 - (a mod 32), n); every later chunk except possibly the
\* last has length exactly 32.  Address 30, length 5 gives bytes [0, 2) at 30
\* then bytes [2, 5) at 32; address 0, length 32 gives one 32-byte chunk at 0.
C6_ChunkLengths ==
  op = "write" =>
    /\ (N > 0 /\ pc # "write_loop") => Len(raw) >= 1
    /\ Len(raw) >= 1 =>
         raw[1] = <<address, Min(32 - (address % 32), N)>>
    /\ \A k \in 2..(Len(raw) - 1) : raw[k][2] = 32
    /\ (Returned("write") /\ result.ok /\ address = 30 /\ N = 5) =>
         /\ raw = << <<30, 2>>, <<32, 3>> >>
         /\ SentUpTo(Len(bus)) = << SubSeq(data, 1, 2), SubSeq(data, 3, 5) >>
    /\ (Returned("write") /\ result.ok /\ address = 0 /\ N = 32) =>
         /\ raw = << <<0, 32>> >>
         /\ SentUpTo(Len(bus)) = << data >>

\* A write of three chunks, the middle one a full page, has returned.
C6_Witness ==
  /\ Returned("write") /\ result.ok /\ Fails = 0
  /\ address = 30 /\ N = 40
  /\ raw = << <<30, 2>>, <<32, 32>>, <<64, 6>> >>

\* ---------------------------------------------------------------- C7
\* C7: write and read of a zero-length slice make no transport call and no
\* delay call and return success.
C7_ZeroLength ==
  (N = 0 /\ op # "none") =>
    /\ bus = <<>>
    /\ raw = <<>>
    /\ pc \in {"write_loop", "read_loop", "done"}
    /\ pc = "done" => result = Ok

\* A zero-length read has returned after a zero-length write.
C7_Witness ==
  /\ N = 0 /\ Returned("read") /\ result = Ok /\ prev.op = "write" /\ bus = <<>>

\* ---------------------------------------------------------------- C8
\* What cell k (1-based) of the caller's range held when the current call
\* began: erased on a fresh device, else what the previous call wrote there
\* or read from there.
Before(k) == IF prev.op = "none" THEN 255 ELSE prev.data[k]

\* The last logged call is the 11th failed attempt of a raw page write.
Exhausted ==
  /\ op = "write" /\ bus # <<>>
  /\ Len(bus) \in WriteOps \ OkWrites
  /\ Cardinality(Attempts(Len(bus))) = 11

\* C8: when a chunk's raw write exhausts its retries, write returns that
\* chunk's transport error at once; every chunk before it has been written
\* to the device and stays written, and nothing is sent for the failing
\* chunk's successors (the bytes from the failing chunk on are as they were
\* before the call).
C8_FailsAtFirstBadChunk ==
  /\ Exhausted =>
       LET last == Len(bus)
           bad == Len(raw)
           done == raw[bad][1] - address
       IN /\ pc = "done"
          /\ result = bus[last].res /\ ~result.ok
          /\ HeaderAddr(bus[last].out) = raw[bad][1] % 65536
          /\ Cardinality(OkWrites) = bad - 1
          /\ \A k \in WriteOps :
               \E m \in 1..bad : HeaderAddr(bus[k].out) = raw[m][1] % 65536
          /\ ReadOps = {}
          /\ \A k \in 1..N :
               MemAt(mem, CellOf(k)) = IF k <= done THEN data[k] ELSE Before(k)
  /\ GaveUp => Exhausted

\* The second chunk of a three-chunk write gave up, over data an earlier
\* write had left: the first chunk is new, the rest is old.
C8_Witness ==
  /\ GaveUp /\ Exhausted /\ prev.op = "write"
  /\ address = 30 /\ N = 40 /\ Len(raw) = 2
  /\ MemAt(mem, 31) = data[2] /\ MemAt(mem, 32) = prev.data[3]
  /\ data[3] # prev.data[3]

\* ---------------------------------------------------------------- C9
\* C9: read never retries.  Each chunk gets exactly one write-then-read
\* transport call, no delay is called, and the first failed call ends read
\* with that call's error, nothing being sent for later chunks.
C9_ReadNoRetry ==
  op = "read" =>
    /\ DelayOps = {} /\ WriteOps = {}
    /\ Len(bus) = IF pc = "read_raw" THEN Len(raw) - 1 ELSE Len(raw)
    /\ \A k \in DOMAIN bus :
         /\ Len(bus[k].out) = 2
         /\ HeaderAddr(bus[k].out) = raw[k][1] % 65536
         /\ bus[k].n = raw[k][2]
         /\ ~bus[k].res.ok =>
              /\ k = Len(bus)
              /\ pc = "done"
              /\ result = bus[k].res
    /\ (pc = "done" /\ ~result.ok) => (bus # <<>> /\ result = bus[Len(bus)].res)

\* A read of three chunks failed on its second chunk.
C9_Witness ==
  /\ Returned("read") /\ ~result.ok
  /\ address = 30 /\ N = 40
  /\ Len(raw) = 2 /\ Len(bus) = 2
  /\ bus[1].res.ok /\ ~bus[2].res.ok

\* --------------------------------------------------------------- C10
\* C10: read(a, buf) issues raw reads with the same sequence of (chunk
\* address, chunk length) pairs as the raw writes of write(a, data) with
\* data as long as buf.  A read of length 40 at address 16 reads 16 bytes
\* at 16, then 24 bytes at 32.
C10_SameChunks ==
  /\ (pc = "done" /\ result.ok /\ prev.op \notin {"none", op}) => raw = prev.raw
  /\ (Returned("read") /\ result.ok /\ address = 16 /\ N = 40) =>
        raw = << <<16, 16>>, <<32, 24>> >>

\* A three-chunk read has followed a three-chunk write.
C10_Witness ==
  /\ Returned("read") /\ result.ok /\ prev.op = "write"
  /\ address = 30 /\ N = 40
  /\ raw = << <<30, 2>>, <<32, 32>>, <<64, 6>> >> /\ prev.raw = raw

\* --------------------------------------------------------------- C11
\* The chunk (index into raw) that transport call k was made for: a write
\* moves to the next chunk after each successful transport write, a read
\* makes one transport call per chunk.
ChunkOf(k) ==
  IF bus[k].kind = "write_read" THEN k
  ELSE Cardinality({j \in OkWrites : j < k}) + 1

\* C11: every transport transaction begins with the 2-byte big-endian
\* address of the chunk it transfers: for a chunk address c with
\* 0 <= c < 8192 the header is (c div 256, c mod 256); a write carries the
\* chunk's bytes after it, and every retry resends the same header and
\* payload as the first attempt.  (Judged on the last logged call in every
\* state, which judges every call when it is made.)
C11_BigEndianHeader ==
  (op # "none" /\ bus # <<>> /\ Len(bus) \notin DelayOps) =>
    LET last == Len(bus)
        out == bus[last].out
        c == raw[ChunkOf(last)][1]
        L == raw[ChunkOf(last)][2]
        lo == c - address
    IN /\ Len(out) >= 2
       /\ (0 <= c /\ c < 8192) => (out[1] = c \div 256 /\ out[2] = c % 256)
       /\ bus[last].kind = "write_read" => Len(out) = 2
       /\ bus[last].kind = "write" =>
            /\ SubSeq(out, 3, Len(out)) = SubSeq(data, lo + 1, lo + L)
            /\ \A j \in Attempts(last) : bus[j].out = out

\* A chunk in the last page of the device went out on a third attempt with
\* header (0x1F, 0xE0).
C11_Witness ==
  /\ op = "write" /\ address = 8160 /\ N = 5 /\ bus # <<>>
  /\ Len(bus) \in OkWrites
  /\ Cardinality(Attempts(Len(bus))) = 3
  /\ bus[Len(bus)].out[1] = 31 /\ bus[Len(bus)].out[2] = 224
  /\ bus[1].out = bus[Len(bus)].out

\* --------------------------------------------------------------- C12
\* C12: a driver constructed with hardware address bits e (0..7) addresses
\* every transport transaction, retries included, to 0x50 | e = 0x50 + e,
\* which lies in 0x50..0x57.
C12_DeviceAddress ==
  /\ \A e \in 0..7 : DevAddr(e) = 80 + e
  /\ (e_addr \in 0..7 /\ bus # <<>> /\ Len(bus) \notin DelayOps) =>
       /\ bus[Len(bus)].dev = 80 + e_addr
       /\ bus[Len(bus)].dev \in 80..87

\* A retried write and a read have both gone to 0x55.
C12_Witness ==
  /\ e_addr = 5 /\ op = "read" /\ bus # <<>> /\ bus[Len(bus)].dev = 85
  /\ prev.op = "write"

\* --------------------------------------------------------------- C13
\* The driver is inside a call.
Running == pc \in {"write_loop", "write_raw", "delay", "read_loop", "read_raw"}
\* A step of the driver inside a call (everything but the caller's calls).
DriverStep ==
  \/ WriteDone \/ WriteChunk \/ I2cWriteErrRetry \/ I2cWriteErrReturn
  \/ I2cWriteOk \/ Delay
  \/ ReadDone \/ ReadChunk \/ I2cWriteReadErr \/ I2cWriteReadOk

\* Bytes between the cursor and the end of the range.
Remaining == IF i < address + N THEN address + N - i ELSE 0
\* Steps the driver can still take before the cursor moves or the call
\* returns: the retries left in the raw page write count twice (an attempt
\* and a delay each).
Phase ==
  CASE pc \in {"write_loop", "read_loop"} -> 2 * MaxRetries + 3
    [] pc = "write_raw" -> 2 * (MaxRetries - raw_i) + 1
    [] pc = "delay" -> 2 * (MaxRetries - raw_i) + 2
    [] pc = "read_raw" -> 1
    [] OTHER -> 0

\* C13: write and read always terminate, whatever the transport does.  Inside
\* a call the driver can always take a step; every step either moves the
\* cursor strictly forward, towards address + length, or leaves it and uses
\* up one of the finitely many steps the retry cap leaves; so the pair
\* (Remaining, Phase) of naturals decreases lexicographically on every step.
C13_Terminates ==
  /\ [](Running => ENABLED DriverStep)
  /\ [](pc # "panic" /\ Remaining >= 0 /\ Phase >= 0)
  /\ [][Running =>
          /\ i' >= i
          /\ (i' # i) => Remaining' < Remaining
          /\ (i' = i) => (Remaining' = Remaining /\ Phase' < Phase)]_vars

\* A write has returned after its transport failed on every call it made.
C13_Witness ==
  /\ Returned("write") /\ ~result.ok /\ N = 40
  /\ OkWrites = {} /\ Cardinality(WriteOps) = 11

\* --------------------------------------------------------------- C14
\* C14: when read fails on chunk k, the caller's buffer holds the bytes read
\* for chunks 1..k-1 at their offsets, and every position of a chunk after
\* k is as it was before the call (the caller passed a zeroed buffer).
C14_PartialBuffer ==
  (Returned("read") /\ ~result.ok) =>
    LET k == Len(raw)
        lo == raw[k][1] - address
        hi == lo + raw[k][2]
    IN /\ \A p \in 1..lo : data[p] = MemAt(mem, CellOf(p))
       /\ \A p \in (hi + 1)..N : data[p] = 0
       /\ \A m \in 1..(k - 1) : bus[m].res.ok /\ bus[m].n = raw[m][2]

\* A read of written data failed on the second of three chunks: the first
\* chunk's two bytes are in the buffer, the third chunk's six are untouched.
C14_Witness ==
  /\ Returned("read") /\ ~result.ok /\ prev.op = "write"
  /\ address = 30 /\ N = 40 /\ Len(raw) = 2
  /\ data[1] = prev.data[1] /\ data[2] = prev.data[2]
  /\ prev.data[1] # 0 /\ prev.data[35] # 0
  /\ \A p \in 35..40 : data[p] = 0

\* --------------------------------------------------------------- C15
\* Concatenation of a sequence of sequences.
RECURSIVE Concat(_)
Concat(ss) == IF ss = <<>> THEN <<>> ELSE Head(ss) \o Concat(Tail(ss))
\* Sum of the chunk lengths of the first k raw invocations.
RECURSIVE LenSum(_)
LenSum(k) == IF k = 0 THEN 0 ELSE LenSum(k - 1) + raw[k][2]

\* C15: the chunks of write(a, data) tile the range: the first chunk starts
\* at a, each later chunk starts where the one before it ended, the chunk
\* lengths sum to n, and the payloads sent, concatenated in issue order,
\* are data.
C15_Tiling ==
  op = "write" =>
    /\ Len(raw) >= 1 => raw[1][1] = address
    /\ \A k \in 2..Len(raw) : raw[k][1] = raw[k - 1][1] + raw[k - 1][2]
    /\ (Returned("write") /\ result.ok) =>
         /\ LenSum(Len(raw)) = N
         /\ Concat(SentUpTo(Len(bus))) = data

\* A three-chunk write whose transport never failed has returned.
C15_Witness ==
  /\ Returned("write") /\ result.ok /\ Fails = 0
  /\ address = 30 /\ N = 40 /\ Len(raw) = 3
  /\ LenSum(3) = 40 /\ Len(bus) = 3

\* --------------------------------------------------------------- C16
\* Failed transport writes of the raw page write in progress.
CurFails ==
  Cardinality({k \in SegStart(Len(bus))..Len(bus) :
                 bus[k].kind = "write" /\ ~bus[k].res.ok})

\* C16: every chunk of a write has its own retry budget.  The retry counter
\* counts the failures of the raw page write in progress only (it is 0 when
\* a raw page write starts, whatever earlier chunks absorbed), a chunk gives
\* up only after 11 attempts of its own, and a write calls the delay at most
\* 10 times per chunk.
C16_FreshBudget ==
  op = "write" =>
    /\ pc \in {"write_raw", "delay"} => raw_i = CurFails
    /\ GaveUp => Cardinality(Attempts(Len(bus))) = 11
    /\ Cardinality(DelayOps) <= 10 * Len(raw)

\* The first chunk absorbed a failure, and the second chunk still made 11
\* attempts before it gave up.
C16_Witness ==
  /\ GaveUp /\ Len(raw) = 2 /\ Fails = 12
  /\ ~bus[1].res.ok /\ bus[3].res.ok
  /\ Cardinality(Attempts(Len(bus))) = 11
  /\ Cardinality(DelayOps) = 11

\* --------------------------------------------------------------- C17
\* C17: within a raw page write, delays and attempts alternate: no delay
\* before the first attempt, exactly one 1 ms delay between two consecutive
\* attempts, and no delay after the attempt that succeeds or after the last
\* failed attempt.  (Judged on the last two log entries in every state,
\* which judges every adjacent pair.)
C17_Alternation ==
  (op = "write" /\ bus # <<>>) =>
    LET last == Len(bus)
        cur == bus[last]
    IN /\ bus[1].kind = "write"
       /\ cur.kind = "delay_ms" => (cur.n = 1 /\ pc = "write_raw")
       /\ last >= 2 =>
            LET before == bus[last - 1]
            IN /\ (before.kind = "write" /\ ~before.res.ok) => cur.kind = "delay_ms"
               /\ (before.kind = "write" /\ before.res.ok) => cur.kind = "write"
               /\ before.kind = "delay_ms" => cur.kind = "write"
       /\ pc \in {"done", "write_loop"} => cur.kind = "write"

\* A raw page write has made attempt, delay, attempt, delay, attempt and
\* succeeded.
C17_Witness ==
  /\ op = "write" /\ Len(bus) = 5 /\ pc = "write_loop"
  /\ bus[1].kind = "write" /\ bus[2].kind = "delay_ms"
  /\ bus[3].kind = "write" /\ bus[4].kind = "delay_ms"
  /\ bus[5].kind = "write" /\ bus[5].res.ok

\* --------------------------------------------------------------- C18
\* C18: when a raw page write exhausts its retries, the error returned is the
\* one of its last, 11th attempt; the errors of its 10 earlier failed
\* attempts are dropped.
C18_LastError ==
  GaveUp =>
    LET last == Len(bus)
    IN /\ last \in WriteOps
       /\ result.err = bus[last].res.err
       /\ Cardinality(Attempts(last) \ {last}) = 10
       /\ \A j \in Attempts(last) \ {last} :
            ~bus[j].res.ok /\ bus[j].res.err # result.err

\* The second chunk gave up after the first chunk had succeeded: the error
\* returned is the one of the call's last transport write.
C18_Witness ==
  /\ GaveUp /\ Len(raw) = 2 /\ Fails = 11
  /\ result.err = Len(bus) /\ bus[Len(bus)].res.err = Len(bus)

\* --------------------------------------------------------------- C19
\* C19: in write and in read, the cursor is a multiple of 32 at the start of
\* every loop iteration after the first, and when the loop exits the cursor
\* is at least address + length: it stops on the page boundary at or after
\* the end of the range, and no raw transfer reaches past the end of the
\* range.
C19_CursorAligned ==
  op # "none" =>
    /\ (pc \in {"write_loop", "read_loop"} /\ Len(raw) >= 1) => i % 32 = 0
    /\ \A k \in 2..Len(raw) : raw[k][1] % 32 = 0
    /\ \A k \in 1..Len(raw) : raw[k][1] + raw[k][2] <= address + N
    /\ (pc = "done" /\ result.ok) =>
         /\ i >= address + N
         /\ N = 0 => i = address
         /\ N > 0 => (i % 32 = 0 /\ i - (address + N) < 32)

\* A read of 40 bytes from 30 has left its loop with the cursor on 96,
\* 26 past the end of the range, after transfers at 30, 32 and 64.
C19_Witness ==
  /\ Returned("read") /\ result.ok
  /\ address = 30 /\ N = 40 /\ i = 96
  /\ Len(raw) = 3 /\ raw[3] = <<64, 6>>

====
